---- MODULE Spec2Model ----
(***************************************************************************)
(* Model of app/app.py: the Streamlit page that loads the processed        *)
(* geodata (load_data), builds the folium map for the selected radio       *)
(* stations (create_station_map) and shows it (main, st_folium).           *)
(*                                                                         *)
(* A run of main is one action: it reads the files, joins, builds the map  *)
(* document and renders it, or ends in an st.error when a step raises.     *)
(* The layer control of the rendered map is the second action: the user    *)
(* ticks a feature group off or on.                                        *)
(*                                                                         *)
(* The specifications share the actions and differ in the datasets they    *)
(* draw: Spec for the styling, SpecFeatures for the features of a group,   *)
(* SpecLegend for the legend, SpecJoin for the join, SpecBuffers for the   *)
(* coverage buffers.                                                       *)
(***************************************************************************)
EXTENDS Integers, Sequences, FiniteSets

\* ------------------------------------------------------------------ bounds
\* Total number of records over the data files of one dataset.
MaxRecords == 3
\* Number of runs of the script (Streamlit reruns main on every interaction).
MaxRuns == 2

\* ---------------------------------------------------------------- fixtures
\* The preselected stations of the multiselect.
default_stations == <<"Aisa FM", "Dwanwana FM", "Dokolo FM">>

\* A station_loc layer with the preselected stations: one row per station, in
\* file order.
FullStationFile ==
    << [station_name |-> "Aisa FM",     color |-> "red"],
       [station_name |-> "Dwanwana FM", color |-> "blue"],
       [station_name |-> "Dokolo FM",   color |-> "green"] >>

\* A station_loc layer that lacks a preselected station.
ShortStationFile ==
    << [station_name |-> "Aisa FM",     color |-> "red"],
       [station_name |-> "Dwanwana FM", color |-> "blue"] >>

\* The stations the enumeration layers and the buffers have rows for.
DataStations == {"Aisa FM", "Dwanwana FM"}

GridIds == {1, 2}
ClusterTypes == {"main", "replacement", "reserve"}
BufferKms == {20, 25, 60}
\* A row's geometry: a point, missing, or a geometry that is not a point (it
\* has no .x and .y).
Geometries == {"POINT", "None", "POLYGON"}
\* nearest_road_maps_link of the i-th grid-cell row of the file.
RoadLinks == <<"road1", "road2", "road3", "road4", "road5", "road6">>
\* What pandas puts in a borrowed column of a row without a match.
NaN == "NaN"

\* ----------------------------------------------------------------- helpers
Range(s) == {s[i] : i \in DOMAIN s}

Last(s) == s[Len(s)]

RECURSIVE Flatten(_)
Flatten(ss) == IF ss = <<>> THEN <<>> ELSE Head(ss) \o Flatten(Tail(ss))

\* Sequences over S without repetition (a multiselect never repeats an option).
DistinctSeqs(S) ==
    {s \in UNION {[1..n -> S] : n \in 0..Cardinality(S)} :
        \A i, j \in DOMAIN s : i # j => s[i] # s[j]}

\* --------------------------------------------------------------- variables
VARIABLES
    files_present,          \* the processed data files exist on disk
    station_loc_file,       \* station_loc.gpkg
    village_columns,        \* village_points has the columns the markers read
    csv_columns,            \* the clusters csv has the columns main drops
    grid_cells_file,        \* layer grid_cells of enumeration_area_data.gpkg
    centroids_file,         \* layer centroids
    village_points_file,    \* layer village_points
    station_buffers_file,   \* station_buffers.gpkg
    reads,                  \* how many times load_data has read the files
    st_errors,              \* how many st.error messages were shown
    loaded,                 \* what the last load_data returned
    selected_stations,      \* the multiselect's value in the last run
    m,                      \* the folium map built in the last run
    rendered,               \* the styles st_folium rendered for the grid layers
    hidden                  \* feature groups ticked off in the layer control

vars == <<files_present, station_loc_file, village_columns, csv_columns,
          grid_cells_file, centroids_file, village_points_file,
          station_buffers_file, reads, st_errors, loaded, selected_stations,
          m, rendered, hidden>>

files == <<files_present, station_loc_file, village_columns, csv_columns,
           grid_cells_file, centroids_file, village_points_file,
           station_buffers_file>>

\* --------------------------------------------------------------- load_data
\* station_buffers_gdf[station_buffers_gdf['buffer_km'] == 25]
FilterBuffers(station_buffers_gdf) ==
    SelectSeq(station_buffers_gdf, LAMBDA b : b.buffer_km = 25)

\* enum_layers['grid_cells'][['station_name', 'grid_id', 'nearest_road_maps_link']]
RightColumns(grid_cells) ==
    [i \in DOMAIN grid_cells |->
        [station_name |-> grid_cells[i].station_name,
         grid_id |-> grid_cells[i].grid_id,
         nearest_road_maps_link |-> grid_cells[i].nearest_road_maps_link]]

\* The rows of the right frame with the key of a left row, in right order.
Matches(row, right) ==
    SelectSeq(right, LAMBDA g : g.station_name = row.station_name
                                /\ g.grid_id = row.grid_id)

WithLink(row, link) ==
    [station_name |-> row.station_name, grid_id |-> row.grid_id,
     geometry |-> row.geometry, nearest_road_maps_link |-> link]

\* Mutant: how='inner', a row without a match is dropped.
LeftRows_inner(row, right) ==
    LET ms == Matches(row, right)
    IN  [i \in DOMAIN ms |-> WithLink(row, ms[i].nearest_road_maps_link)]

\* The rows a left row contributes to a how='left' merge: one per match,
\* or the row itself with the borrowed column empty.
LeftRows(row, right) ==
    LET ms == Matches(row, right)
    IN  IF ms = <<>>
        THEN << WithLink(row, NaN) >>
        ELSE [i \in DOMAIN ms |-> WithLink(row, ms[i].nearest_road_maps_link)]

\* centroids.merge(right, on=['station_name', 'grid_id'], how='left')
merge(left, right) ==
    Flatten([i \in DOMAIN left |-> LeftRows(left[i], right)])

NoData ==
    [ok |-> FALSE, station_loc_gdf |-> <<>>, station_buffers_gdf |-> <<>>,
     grid_cells |-> <<>>, centroids |-> <<>>, village_points |-> <<>>,
     village_columns |-> TRUE]

\* What load_data returns when the files can be read.
load_data ==
    [ok |-> TRUE,
     station_loc_gdf |-> station_loc_file,
     station_buffers_gdf |-> FilterBuffers(station_buffers_file),
     grid_cells |-> grid_cells_file,
     centroids |-> merge(centroids_file, RightColumns(grid_cells_file)),
     village_points |-> village_points_file,
     village_columns |-> village_columns]

\* ------------------------------------------------------ create_station_map
\* station_loc_gdf[station_loc_gdf['station_name'].isin(station_names)]
StationLocs(station_names, station_loc_gdf) ==
    SelectSeq(station_loc_gdf, LAMBDA r : r.station_name \in Range(station_names))

\* df[df['station_name'] == station]
OfStation(df, station) ==
    SelectSeq(df, LAMBDA r : r.station_name = station)

LegendEntry(kind, color, text) == [kind |-> kind, color |-> color, text |-> text]

\* Mutant: only emptiness is tested, not the geometries.
VillagesAvailable_nonempty(village_points) == village_points # <<>>

\* not village_points.empty and not village_points.geometry.isna().all()
VillagesAvailable(village_points) ==
    /\ village_points # <<>>
    /\ ~ \A i \in DOMAIN village_points : village_points[i].geometry = "None"

\* The rows of the legend, top to bottom.
legend_html(station_locs, enum_layers) ==
    << LegendEntry("heading", "none", "Radio Stations") >>
    \o [i \in DOMAIN station_locs |->
          LegendEntry("station", station_locs[i].color, station_locs[i].station_name)]
    \o << LegendEntry("heading", "none", "Grid Cells"),
          LegendEntry("grid_styles", "none", "Solid - Main / Dashed - Replacement") >>
    \o (IF VillagesAvailable(enum_layers.village_points)
        THEN << LegendEntry("village", "purple", "Purple - Nearest Village") >>
        ELSE <<>>)

\* station_locs[station_locs['station_name'] == station]['color'].iloc[0]
StationColor(station, station_locs) ==
    OfStation(station_locs, station)[1].color

\* The colour of a grid layer is not a value but the lambda's reference to the
\* variable station_color of create_station_map's frame.
LateBound == "station_color"

Child(kind, station, color, grid_id, link, features) ==
    [kind |-> kind, station_name |-> station, color |-> color, grid_id |-> grid_id,
     link |-> link, features |-> features]

\* folium.GeoJson(station_grids, style_function=lambda feature: ...)
GridLayer(station, enum_layers) ==
    Child("grid_layer", station, LateBound, 0, "none",
          OfStation(enum_layers.grid_cells, station))

\* Reading row.geometry.y raises for a geometry that is not a point.
LocationRaises(row) == row.geometry = "POLYGON"

\* The centroid loop has no try: a centroid of a selected station that has a
\* geometry other than a point makes create_station_map raise.
Raises(station_names, enum_layers) ==
    \E i \in DOMAIN enum_layers.centroids :
        /\ enum_layers.centroids[i].station_name \in Range(station_names)
        /\ enum_layers.centroids[i].geometry # "None"
        /\ LocationRaises(enum_layers.centroids[i])

\* One CircleMarker per centroid of the station with a geometry (when nothing
\* raises).
CentroidMarkers(station, station_color, enum_layers) ==
    LET rows == SelectSeq(OfStation(enum_layers.centroids, station),
                          LAMBDA r : r.geometry # "None")
    IN  [i \in DOMAIN rows |->
            Child("centroid", station, station_color, rows[i].grid_id,
                  rows[i].nearest_road_maps_link, <<>>)]

\* The body of the try: the marker is built when the geometry is a point and
\* the frame has the columns the tooltip and popup read; otherwise the bare
\* except skips the row.
MarkerBuilt(row, enum_layers) ==
    /\ ~LocationRaises(row)
    /\ enum_layers.village_columns

\* One purple CircleMarker per village point of the station with a geometry
\* whose marker could be built.
VillageMarkers(station, enum_layers) ==
    LET rows == SelectSeq(OfStation(enum_layers.village_points, station),
                          LAMBDA r : r.geometry # "None"
                                     /\ MarkerBuilt(r, enum_layers))
    IN  [i \in DOMAIN rows |-> Child("village", station, "purple", 0, "none", <<>>)]

\* folium.Marker(...).add_to(station_groups[station])
StationMarker(station, station_color) ==
    Child("station_marker", station, station_color, 0, "none", <<>>)

\* One iteration of the loop over station_names: the station's FeatureGroup.
FeatureGroup(station, station_locs, enum_layers) ==
    LET station_color == StationColor(station, station_locs)
    IN  [name |-> station,
         children |-> << GridLayer(station, enum_layers) >>
                      \o CentroidMarkers(station, station_color, enum_layers)
                      \o VillageMarkers(station, enum_layers)
                      \o << StationMarker(station, station_color) >>]

\* station_groups after the loop: a dict filled in the order of station_names
\* (the names are distinct, so no key is overwritten).
StationGroups(station_names, station_locs, enum_layers) ==
    [i \in DOMAIN station_names |->
        FeatureGroup(station_names[i], station_locs, enum_layers)]

\* The value the frame's variable station_color holds when the loop is over.
FrameStationColor(station_names, station_locs) ==
    StationColor(Last(station_names), station_locs)

NoMap ==
    [built |-> FALSE, base_layers |-> <<>>, legend |-> <<>>, groups |-> <<>>,
     control |-> <<>>, station_color |-> "none"]

\* The document assembled from the filtered station rows: legend, the groups
\* added to the map in the dict's order, and the layer control listing them.
MapDocument(station_names, station_locs, enum_layers) ==
    LET station_groups == StationGroups(station_names, station_locs, enum_layers)
    IN  [built |-> TRUE,
         base_layers |-> <<"OpenStreetMap", "Satellite">>,
         legend |-> legend_html(station_locs, enum_layers),
         groups |-> station_groups,
         control |-> [i \in DOMAIN station_groups |-> station_groups[i].name],
         station_color |-> FrameStationColor(station_names, station_locs)]

\* Mutant: the selection is ignored and every station of the file is built.
create_station_map_unfiltered(station_names, station_loc_gdf, enum_layers) ==
    MapDocument([i \in DOMAIN station_loc_gdf |-> station_loc_gdf[i].station_name],
                station_loc_gdf, enum_layers)

\* The map document create_station_map returns when it does not raise
\* (station_names is not empty and names stations of station_loc_gdf).
create_station_map(station_names, station_loc_gdf, enum_layers) ==
    MapDocument(station_names, StationLocs(station_names, station_loc_gdf), enum_layers)

\* The lambda handed to folium.GeoJson, called with the frame's station_color.
style_function(feature, station_color) ==
    [fillColor |-> "None",
     color |-> station_color,
     weight |-> 2,
     fillOpacity |-> 0,
     dashArray |-> IF feature.cluster_type = "replacement" THEN "5,5" ELSE "None"]

\* st_folium(m): rendering calls each grid layer's style function on each of
\* its features; the build is over, so the frame holds its final values.
st_folium(map) ==
    [i \in DOMAIN map.groups |->
        LET layer == map.groups[i].children[1]
        IN  [name |-> map.groups[i].name,
             styles |-> [j \in DOMAIN layer.features |->
                            style_function(layer.features[j], map.station_color)]]]

\* -------------------------------------------------------------------- main
\* station_loc_gdf['station_name'].unique().tolist()
available_stations ==
    {station_loc_file[i].station_name : i \in DOMAIN station_loc_file}

\* st.multiselect raises when a default value is not among the options.
MultiselectRaises == ~(Range(default_stations) \subseteq available_stations)

\* display_df_2.drop(columns=['processing_success', 'found_at_radius'])
DropRaises == ~csv_columns

\* On the first run the multiselect holds its default; on a rerun it holds
\* what the user has picked.
FirstRun == reads = 0

\* One run of the script.  Without the files load_data shows an error and
\* returns None, and main shows nothing more.  With them, an exception of the
\* multiselect or of create_station_map ends the run in main's except, before
\* any map is shown; an exception of the trailing drop ends it there after
\* the map was shown.
Main(selection) ==
    /\ reads < MaxRuns
    /\ reads' = reads + 1
    /\ selected_stations' = selection
    /\ hidden' = {}
    /\ UNCHANGED files
    /\ IF ~files_present
       THEN /\ selection = <<>>
            /\ loaded' = NoData
            /\ st_errors' = st_errors + 1
            /\ m' = NoMap
            /\ rendered' = <<>>
       ELSE /\ loaded' = load_data
            /\ IF MultiselectRaises
               THEN /\ selection = <<>>
                    /\ st_errors' = st_errors + 1
                    /\ m' = NoMap
                    /\ rendered' = <<>>
               ELSE IF selection # <<>> /\ Raises(selection, load_data)
               THEN /\ FirstRun => selection = default_stations
                    /\ st_errors' = st_errors + 1
                    /\ m' = NoMap
                    /\ rendered' = <<>>
               ELSE /\ FirstRun => selection = default_stations
                    /\ IF selection # <<>>
                       THEN /\ m' = create_station_map(selection,
                                        load_data.station_loc_gdf, load_data)
                            /\ rendered' = st_folium(m')
                       ELSE /\ m' = NoMap
                            /\ rendered' = <<>>
                    /\ st_errors' = IF DropRaises THEN st_errors + 1 ELSE st_errors

\* The user ticks a feature group of the layer control off or on.
ToggleLayer(g) ==
    /\ m.built
    /\ g \in Range(m.control)
    /\ hidden' = IF g \in hidden THEN hidden \ {g} ELSE hidden \cup {g}
    /\ UNCHANGED <<files, reads, st_errors, loaded, selected_stations, m, rendered>>

Next ==
    \/ \E selection \in DistinctSeqs(available_stations) : Main(selection)
    \/ \E g \in available_stations : ToggleLayer(g)

\* ------------------------------------------------------------------ inputs
SeqsOfLen(S, n) == [1..n -> S]

GridKeys(stations, ids, types) ==
    [station_name : stations, grid_id : ids, cluster_type : types]

\* Grid-cell rows over the given keys; the i-th row of the file carries the
\* i-th road link.
GridRows(keys, n) ==
    {[i \in 1..n |->
        [station_name |-> ks[i].station_name, grid_id |-> ks[i].grid_id,
         cluster_type |-> ks[i].cluster_type,
         nearest_road_maps_link |-> RoadLinks[i]]] : ks \in SeqsOfLen(keys, n)}

CentroidRecs(stations, ids, geoms) ==
    [station_name : stations, grid_id : ids, geometry : geoms]

VillageRecs(stations, geoms) == [station_name : stations, geometry : geoms]

BufferRecs(stations) == [station_name : stations, buffer_km : BufferKms]

InitSession ==
    /\ reads = 0
    /\ st_errors = 0
    /\ loaded = NoData
    /\ selected_stations = <<>>
    /\ m = NoMap
    /\ rendered = <<>>
    /\ hidden = {}

NoRows ==
    /\ grid_cells_file = <<>>
    /\ centroids_file = <<>>
    /\ village_points_file = <<>>
    /\ station_buffers_file = <<>>

\* The files cannot be read.
MissingFiles ==
    /\ files_present = FALSE
    /\ station_loc_file = <<>>
    /\ village_columns = TRUE
    /\ csv_columns = TRUE
    /\ NoRows

\* The station file lacks a preselected station.
ShortFiles ==
    /\ files_present = TRUE
    /\ station_loc_file = ShortStationFile
    /\ village_columns = TRUE
    /\ csv_columns = TRUE
    /\ NoRows

\* The clusters csv lacks the columns main drops.
CsvFiles ==
    /\ files_present = TRUE
    /\ station_loc_file = FullStationFile
    /\ village_columns = TRUE
    /\ csv_columns = FALSE
    /\ NoRows

Degenerate == MissingFiles \/ ShortFiles \/ CsvFiles

\* Readable files with the preselected stations and at most MaxRecords rows
\* in all, drawn from the given sets of rows.
Dataset(gridKeys, centroidRecs, villageRecs, bufferRecs) ==
    /\ files_present = TRUE
    /\ station_loc_file = FullStationFile
    /\ csv_columns = TRUE
    /\ \E a, b, c, d \in 0..MaxRecords :
        /\ a + b + c + d <= MaxRecords
        /\ grid_cells_file \in GridRows(gridKeys, a)
        /\ centroids_file \in SeqsOfLen(centroidRecs, b)
        /\ village_points_file \in SeqsOfLen(villageRecs, c)
        /\ station_buffers_file \in SeqsOfLen(bufferRecs, d)

\* Datasets for the styling: grid cells of every cluster type, centroids with
\* a point, without a geometry and with a geometry that is not a point.
MapFiles ==
    /\ Dataset(GridKeys({"Aisa FM"}, {1}, ClusterTypes),
               CentroidRecs({"Aisa FM"}, {1}, Geometries), {}, {})
    /\ village_columns = TRUE

\* Datasets for the features of a group: grid cells, centroids with and
\* without a geometry, village points whose marker can and cannot be built.
FeatureFiles ==
    /\ Dataset(GridKeys({"Aisa FM"}, {1}, {"main"}),
               CentroidRecs({"Aisa FM"}, {1}, {"POINT", "None"})
                   \cup CentroidRecs({"Dwanwana FM"}, {1}, {"POINT"}),
               VillageRecs({"Aisa FM"}, {"POINT", "POLYGON"}), {})
    /\ village_columns = TRUE

\* Datasets for the legend: village points with and without a geometry, in a
\* frame with or without the columns the markers read.
LegendFiles ==
    /\ Dataset({}, {}, VillageRecs({"Aisa FM"}, Geometries), {})
    /\ village_columns \in (IF village_points_file = <<>> THEN {TRUE} ELSE BOOLEAN)

\* Datasets for the join: grid cells and centroids over several keys.
JoinFiles ==
    /\ Dataset(GridKeys({"Aisa FM"}, GridIds, {"main"}),
               CentroidRecs(DataStations, {1}, {"POINT"}), {}, {})
    /\ village_columns = TRUE

\* Datasets for the buffers: coverage buffers of every radius.
BufferFiles ==
    /\ Dataset(GridKeys({"Aisa FM"}, {1}, {"main"}), {}, {}, BufferRecs({"Aisa FM"}))
    /\ village_columns = TRUE

Init == InitSession /\ (Degenerate \/ MapFiles)

InitFeatures == InitSession /\ (Degenerate \/ FeatureFiles)

InitLegend == InitSession /\ (Degenerate \/ LegendFiles)

InitJoin == InitSession /\ (Degenerate \/ JoinFiles)

InitBuffers == InitSession /\ (Degenerate \/ BufferFiles)

Spec == Init /\ [][Next]_vars

SpecFeatures == InitFeatures /\ [][Next]_vars

SpecLegend == InitLegend /\ [][Next]_vars

SpecJoin == InitJoin /\ [][Next]_vars

SpecBuffers == InitBuffers /\ [][Next]_vars

\* ================================================================== claims
AllStations == [i \in DOMAIN station_loc_file |-> station_loc_file[i].station_name]

Selected == Range(selected_stations)

KindCount(group, kind) ==
    Len(SelectSeq(group.children, LAMBDA c : c.kind = kind))

GroupsNamed(doc, s) == {i \in DOMAIN doc.groups : doc.groups[i].name = s}

SameCounts(g, h) ==
    /\ Len(g.children) = Len(h.children)
    /\ \A kind \in {"grid_layer", "centroid", "village"} :
          KindCount(g, kind) = KindCount(h, kind)
    /\ Len(g.children[1].features) = Len(h.children[1].features)

\* C1: the map holds exactly one group per selected station and none for an
\* unselected one, and each group holds as many features of each kind as the
\* same station's group in a build with every station selected.
C1_SelectionFilter ==
    m.built =>
        LET full == create_station_map(AllStations, loaded.station_loc_gdf, loaded)
        IN  /\ Len(m.groups) = Cardinality(Selected)
            /\ \A s \in available_stations :
                  Cardinality(GroupsNamed(m, s)) = IF s \in Selected THEN 1 ELSE 0
            /\ ~Raises(AllStations, loaded) =>
                  \A i \in DOMAIN m.groups : \E j \in DOMAIN full.groups :
                      /\ full.groups[j].name = m.groups[i].name
                      /\ SameCounts(m.groups[i], full.groups[j])

C1_Witness ==
    /\ m.built
    /\ Selected # available_stations
    /\ \E i \in DOMAIN m.groups :
          /\ KindCount(m.groups[i], "centroid") > 0
          /\ KindCount(m.groups[i], "village") > 0
    /\ \E k \in DOMAIN loaded.centroids :
          /\ loaded.centroids[k].station_name \notin Selected
          /\ loaded.centroids[k].geometry # "None"

StationMarkerShown(s) ==
    \E i \in DOMAIN m.groups :
        /\ m.groups[i].name \notin hidden
        /\ \E k \in DOMAIN m.groups[i].children :
              /\ m.groups[i].children[k].kind = "station_marker"
              /\ m.groups[i].children[k].station_name = s

\* C2: whatever groups the layer control hides, the marker of every rendered
\* station is still shown.
C2_StationMarkersAlwaysVisible ==
    m.built => \A s \in Selected : StationMarkerShown(s)

\* C3: no style record is returned for a grid cell whose cluster_type is
\* neither 'main' nor 'replacement'.
C3_UnknownClusterTypeFails ==
    \A i \in DOMAIN rendered : \A j \in DOMAIN rendered[i].styles :
        m.groups[i].children[1].features[j].cluster_type \in {"main", "replacement"}

KeyOf(r) == <<r.station_name, r.grid_id>>

UniqueKeys(rows) ==
    \A i, j \in DOMAIN rows : KeyOf(rows[i]) = KeyOf(rows[j]) => i = j

Matched(c) == \E i \in DOMAIN grid_cells_file : KeyOf(grid_cells_file[i]) = KeyOf(c)

\* C4: with at most one grid cell per (station_name, grid_id), the join keeps
\* one row per centroid, in order, with its own fields, and the link of its
\* grid cell, or an empty link when it has none.
C4_JoinCardinality ==
    (loaded.ok /\ UniqueKeys(grid_cells_file)) =>
        /\ Len(loaded.centroids) = Len(centroids_file)
        /\ \A i \in DOMAIN loaded.centroids :
              /\ i \in DOMAIN centroids_file
              /\ loaded.centroids[i].station_name = centroids_file[i].station_name
              /\ loaded.centroids[i].grid_id = centroids_file[i].grid_id
              /\ loaded.centroids[i].geometry = centroids_file[i].geometry
              /\ IF Matched(centroids_file[i])
                 THEN \E g \in DOMAIN grid_cells_file :
                        /\ KeyOf(grid_cells_file[g]) = KeyOf(centroids_file[i])
                        /\ loaded.centroids[i].nearest_road_maps_link
                             = grid_cells_file[g].nearest_road_maps_link
                 ELSE loaded.centroids[i].nearest_road_maps_link = NaN

C4_Witness ==
    /\ loaded.ok
    /\ UniqueKeys(grid_cells_file)
    /\ \E i, j \in DOMAIN centroids_file :
          /\ Matched(centroids_file[i])
          /\ loaded.centroids[i].nearest_road_maps_link # NaN
          /\ ~Matched(centroids_file[j])
          /\ loaded.centroids[j].nearest_road_maps_link = NaN

\* C5: when two grid cells share a (station_name, grid_id), a run reports an
\* error and builds nothing.
C5_DuplicateKeysReported ==
    (reads > 0 /\ ~UniqueKeys(grid_cells_file)) =>
        /\ st_errors > 0
        /\ ~loaded.ok
        /\ ~m.built

VillageEntries(doc) ==
    Len(SelectSeq(doc.legend, LAMBDA e : e.kind = "village"))

SomeVillageGeometry ==
    \E i \in DOMAIN village_points_file : village_points_file[i].geometry # "None"

\* C6: the legend holds the village entry once when some village point has a
\* geometry, and not at all when there is none or all are without geometry.
C6_LegendFaithfulness ==
    m.built => VillageEntries(m) = IF SomeVillageGeometry THEN 1 ELSE 0

C6_Witness ==
    /\ m.built
    /\ SomeVillageGeometry
    /\ \E i \in DOMAIN village_points_file : village_points_file[i].geometry = "None"
    /\ VillageEntries(m) = 1

\* C7: every ordering of the selected stations builds the same document and
\* renders the same styles.
C7_SelectionOrderInvariance ==
    m.built =>
        \A p \in DistinctSeqs(available_stations) :
            Range(p) = Selected =>
                LET doc == create_station_map(p, loaded.station_loc_gdf, loaded)
                IN  /\ doc = m
                    /\ st_folium(doc) = rendered

HasBuffer(s, km) ==
    \E i \in DOMAIN station_buffers_file :
        /\ station_buffers_file[i].station_name = s
        /\ station_buffers_file[i].buffer_km = km

\* A group showing the coverage buffer of a station for a radius: one of its
\* layers has that buffer among its features.
BufferGroups(doc, s, km) ==
    {i \in DOMAIN doc.groups :
        \E k \in DOMAIN doc.groups[i].children :
            \E f \in DOMAIN doc.groups[i].children[k].features :
                doc.groups[i].children[k].features[f]
                    = [station_name |-> s, buffer_km |-> km]}

\* C8 as stated: a rendered station with 60 km and 20 km buffers has both
\* buffer groups in the map, the 20 km group after the 60 km group.
C8_BufferZOrder ==
    m.built =>
        \A s \in Selected :
            (HasBuffer(s, 60) /\ HasBuffer(s, 20)) =>
                \E i \in BufferGroups(m, s, 60) : \E j \in BufferGroups(m, s, 20) : i < j

\* C9: over the runs of main the files are read at most once.
C9_LoadOnce == reads <= 1

\* C10: every style rendered for a station's grid cells carries that
\* station's own colour.
C10_OwnGridColour ==
    \A i \in DOMAIN rendered : \A j \in DOMAIN rendered[i].styles :
        rendered[i].styles[j].color = StationColor(rendered[i].name, station_loc_file)

====
